---- MODULE Spec2Model ----
(***************************************************************************)
(* Model of ReactNativeColorThief (src/src/color-converters.ts).           *)
(*                                                                         *)
(* One instance of the class is shared by up to MaxCalls extraction calls. *)
(* JavaScript runs every call to completion between two awaits, so a call  *)
(* is a sequence of atomic steps: the synchronous prefix up to the await   *)
(* of Skia.Data.fromURI (Start), the continuation after the pixel source   *)
(* responded (Resume), and the continuations of the wrapping operations    *)
(* after the inner promise settled (OuterResume, StatsResume).             *)
(***************************************************************************)
EXTENDS Integers, Sequences, FiniteSets, TLC

\* ------------------------------------------------------- values of the code
NULL == 0
UNDEF == -1

Fields == {"quality", "colorCount", "minAlpha", "excludeWhite",
           "whiteThreshold", "canvasSize"}

\* A configuration object passed by a caller: the properties that hold a
\* value, the properties that hold undefined and the properties that hold
\* null; every other property is absent.
Partial(values, undef, nul) ==
  [values |-> values, undefined |-> undef, null |-> nul]

NoProperties == Partial(<<>>, {}, {})

\* this.config: the six fields, and which of them hold undefined or null. A
\* field that holds null reads as 0 / false, as JavaScript coerces it; a field
\* that holds undefined is read through the operators below.
DefaultConfig ==
  [quality |-> 10, colorCount |-> 5, minAlpha |-> 125, excludeWhite |-> TRUE,
   whiteThreshold |-> 250, canvasSize |-> 256, undefined |-> {}, null |-> {}]

IsUndefined(cfg, f) == f \in cfg.undefined

\* the slot of a field that holds undefined or null
Coerced(f) == IF f = "excludeWhite" THEN FALSE ELSE NULL

\* config.x ?? default, for every field: an absent, undefined or null
\* property resolves to the default
constructor(partial) ==
  LET v(f) == IF f \in DOMAIN partial.values THEN partial.values[f]
              ELSE DefaultConfig[f]
  IN [quality |-> v("quality"), colorCount |-> v("colorCount"),
      minAlpha |-> v("minAlpha"), excludeWhite |-> v("excludeWhite"),
      whiteThreshold |-> v("whiteThreshold"), canvasSize |-> v("canvasSize"),
      undefined |-> {}, null |-> {}]

\* variant: the new properties are merged over the defaults
updateConfigOverDefaults(cfg, newConfig) ==
  LET own == DOMAIN newConfig.values \cup newConfig.undefined \cup newConfig.null
      v(f) == IF f \in DOMAIN newConfig.values THEN newConfig.values[f]
              ELSE IF f \in own THEN Coerced(f)
              ELSE DefaultConfig[f]
  IN [quality |-> v("quality"), colorCount |-> v("colorCount"),
      minAlpha |-> v("minAlpha"), excludeWhite |-> v("excludeWhite"),
      whiteThreshold |-> v("whiteThreshold"), canvasSize |-> v("canvasSize"),
      undefined |-> newConfig.undefined, null |-> newConfig.null]

\* { ...this.config, ...newConfig }: every own property of newConfig
\* overwrites the field, whatever it holds
updateConfig(cfg, newConfig) ==
  LET own == DOMAIN newConfig.values \cup newConfig.undefined \cup newConfig.null
      v(f) == IF f \in DOMAIN newConfig.values THEN newConfig.values[f]
              ELSE IF f \in own THEN Coerced(f)
              ELSE cfg[f]
  IN [quality |-> v("quality"), colorCount |-> v("colorCount"),
      minAlpha |-> v("minAlpha"), excludeWhite |-> v("excludeWhite"),
      whiteThreshold |-> v("whiteThreshold"), canvasSize |-> v("canvasSize"),
      undefined |-> (cfg.undefined \ own) \cup newConfig.undefined,
      null |-> (cfg.null \ own) \cup newConfig.null]

\* variant: resetConfig with the quality of the README example
resetConfigQuality3 == [DefaultConfig EXCEPT !.quality = 3]

resetConfig ==
  [quality |-> 10, colorCount |-> 5, minAlpha |-> 125, excludeWhite |-> TRUE,
   whiteThreshold |-> 250, canvasSize |-> 256, undefined |-> {}, null |-> {}]

\* variant: getConfig returns this.config itself
getConfigReturnsReference(cfg) == [value |-> cfg, sameObject |-> TRUE]

\* { ...this.config }: a new object with the same properties; sameObject says
\* whether the object returned is the object this.config refers to
getConfig(cfg) ==
  [value |-> [f \in DOMAIN cfg |-> cfg[f]], sameObject |-> FALSE]

\* ------------------------------------------------------------ strings
\* Strings the code inspects character by character are sequences of
\* one-character strings.
Lower ==
  [ch \in {"A","B","C","D","E","F","G","J","P","S","V"} |->
     CASE ch = "A" -> "a" [] ch = "B" -> "b" [] ch = "C" -> "c"
       [] ch = "D" -> "d" [] ch = "E" -> "e" [] ch = "F" -> "f"
       [] ch = "G" -> "g" [] ch = "J" -> "j" [] ch = "P" -> "p"
       [] ch = "S" -> "s" [] ch = "V" -> "v"]

toLowerCase(s) ==
  [k \in 1..Len(s) |-> IF s[k] \in DOMAIN Lower THEN Lower[s[k]] ELSE s[k]]

endsWith(s, suffix) ==
  /\ Len(s) >= Len(suffix)
  /\ SubSeq(s, Len(s) - Len(suffix) + 1, Len(s)) = suffix

\* variant: the suffix is compared without lowering the case
isURLEndsWithSVGCaseSensitive(url) == endsWith(url, <<".", "s", "v", "g">>)

isURLEndsWithSVG(url) == endsWith(toLowerCase(url), <<".", "s", "v", "g">>)

supportedExtensions ==
  << <<".", "j", "p", "g">>, <<".", "j", "p", "e", "g">>, <<".", "p", "n", "g">>,
     <<".", "g", "i", "f">>, <<".", "b", "m", "p">>, <<".", "w", "e", "b", "p">>,
     <<".", "s", "v", "g">> >>

\* supportedExtensions.some((ext) => lowerURI.endsWith(ext))
isSupportedFormat(sourceURI) ==
  LET lowerURI == toLowerCase(sourceURI)
  IN \E k \in 1..Len(supportedExtensions) : endsWith(lowerURI, supportedExtensions[k])

\* ------------------------------------------------------------ formatting
HexDigitsUpper ==
  <<"0","1","2","3","4","5","6","7","8","9","A","B","C","D","E","F">>

\* convert.rgb.hex of color-convert: six upper-case digits
convertRgbHex(rgb) ==
  <<HexDigitsUpper[(rgb[1] \div 16) + 1], HexDigitsUpper[(rgb[1] % 16) + 1],
    HexDigitsUpper[(rgb[2] \div 16) + 1], HexDigitsUpper[(rgb[2] % 16) + 1],
    HexDigitsUpper[(rgb[3] \div 16) + 1], HexDigitsUpper[(rgb[3] % 16) + 1]>>

formatHex(hex) == <<"#">> \o toLowerCase(hex)

rgbStringfy(r, g, b) ==
  "rgb(" \o ToString(r) \o ", " \o ToString(g) \o ", " \o ToString(b) \o ")"

Max2(a, b) == IF a >= b THEN a ELSE b
Min2(a, b) == IF a <= b THEN a ELSE b

\* Math.round of the rational n/d (d > 0): floor(n/d + 1/2)
RoundDiv(n, d) == (2 * n + d) \div (2 * d)

\* convert.rgb.hsl of color-convert (rounded wrapper), on integers
convertRgbHsl(rgb) ==
  LET r == rgb[1]  g == rgb[2]  b == rgb[3]
      max == Max2(r, Max2(g, b))
      min == Min2(r, Min2(g, b))
      delta == max - min
      h60n == IF max = min THEN 0
              ELSE IF r = max THEN 60 * (g - b)
              ELSE IF g = max THEN 120 * delta + 60 * (b - r)
              ELSE 240 * delta + 60 * (r - g)
      hn == IF h60n < 0 THEN h60n + 360 * delta ELSE h60n
      h == IF max = min THEN 0 ELSE Min2(RoundDiv(hn, delta), 360)
      l == RoundDiv(100 * (min + max), 510)
      s == IF max = min THEN 0
           ELSE IF min + max <= 255 THEN RoundDiv(100 * delta, max + min)
           ELSE RoundDiv(100 * delta, 510 - max - min)
  IN <<h, s, l>>

hslStringfy(hsl) ==
  "hsl(" \o ToString(hsl[1]) \o ", " \o ToString(hsl[2]) \o "%, "
         \o ToString(hsl[3]) \o "%)"

\* convert.rgb.keyword of color-convert: the CSS keyword at the least
\* squared distance, first of the table on ties (a part of the table)
CssKeywords ==
  << <<"black", <<0, 0, 0>> >>, <<"blue", <<0, 0, 255>> >>,
     <<"lime", <<0, 255, 0>> >>, <<"red", <<255, 0, 0>> >>,
     <<"white", <<255, 255, 255>> >> >>

Dist2(x, y) ==
  (x[1] - y[1]) * (x[1] - y[1]) + (x[2] - y[2]) * (x[2] - y[2])
    + (x[3] - y[3]) * (x[3] - y[3])

convertRgbKeyword(rgb) ==
  LET best == CHOOSE k \in 1..Len(CssKeywords) :
                /\ \A j \in 1..Len(CssKeywords) :
                     Dist2(rgb, CssKeywords[k][2]) <= Dist2(rgb, CssKeywords[j][2])
                /\ \A j \in 1..(k - 1) :
                     Dist2(rgb, CssKeywords[j][2]) > Dist2(rgb, CssKeywords[k][2])
  IN CssKeywords[best][1]

\* formatRGB(arrayRGB, format); the string formats only
formatRGB(arrayRGB, format) ==
  CASE format = "rgbString" -> rgbStringfy(arrayRGB[1], arrayRGB[2], arrayRGB[3])
    [] format = "hex" -> formatHex(convertRgbHex(arrayRGB))
    [] format = "hslString" -> hslStringfy(convertRgbHsl(arrayRGB))
    [] format = "keyword" -> convertRgbKeyword(arrayRGB)

createColorResult(rgb) ==
  [rgb |-> rgb,
   formats |-> [hex |-> formatRGB(rgb, "hex"),
                rgb |-> formatRGB(rgb, "rgbString"),
                hsl |-> formatRGB(rgb, "hslString"),
                keyword |-> formatRGB(rgb, "keyword")]]

\* ------------------------------------------------------------ hex strings
HexDigitsLower ==
  <<"0","1","2","3","4","5","6","7","8","9","a","b","c","d","e","f">>

\* x.toString(16) of a non-negative integer: lower-case digits, no padding
RECURSIVE toString16(_)
toString16(x) ==
  IF x < 16 THEN <<HexDigitsLower[x + 1]>>
  ELSE toString16(x \div 16) \o <<HexDigitsLower[(x % 16) + 1]>>

\* hex.length === 1 ? `0${hex}` : hex
padHex(hex) == IF Len(hex) = 1 THEN <<"0">> \o hex ELSE hex

\* variant: the digits are joined without padding
rgbToHexUnpadded(r, g, b) ==
  <<"#">> \o toString16(r) \o toString16(g) \o toString16(b)

rgbToHex(r, g, b) ==
  <<"#">> \o padHex(toString16(r)) \o padHex(toString16(g)) \o padHex(toString16(b))

\* the characters [a-f\d] matches under the flag i
HexClass ==
  {"0","1","2","3","4","5","6","7","8","9",
   "a","b","c","d","e","f","A","B","C","D","E","F"}

\* the value Number.parseInt gives one hexadecimal digit
digitValue(ch) ==
  LET lower == toLowerCase(<<ch>>)[1]
  IN (CHOOSE k \in 1..16 : HexDigitsLower[k] = lower) - 1

\* Number.parseInt(s, 16) of a string of hexadecimal digits
RECURSIVE parseInt16(_)
parseInt16(s) ==
  IF s = <<>> THEN 0
  ELSE 16 * parseInt16(SubSeq(s, 1, Len(s) - 1)) + digitValue(s[Len(s)])

NullRGB == [isNull |-> TRUE, r |-> 0, g |-> 0, b |-> 0]

\* variant: the pattern without the anchor at the end
hexToRgbUnanchored(hex) ==
  LET start == IF Len(hex) >= 1 /\ hex[1] = "#" THEN 1 ELSE 0
      matches == /\ Len(hex) >= start + 6
                 /\ \A k \in (start + 1)..(start + 6) : hex[k] \in HexClass
  IN IF matches
     THEN [isNull |-> FALSE,
           r |-> parseInt16(SubSeq(hex, start + 1, start + 2)),
           g |-> parseInt16(SubSeq(hex, start + 3, start + 4)),
           b |-> parseInt16(SubSeq(hex, start + 5, start + 6))]
     ELSE NullRGB

\* /^#?([a-f\d]{2})([a-f\d]{2})([a-f\d]{2})$/i.exec(hex): start is what #?
\* consumed; the three groups are parsed in base 16
hexToRgb(hex) ==
  LET start == IF Len(hex) >= 1 /\ hex[1] = "#" THEN 1 ELSE 0
      matches == /\ Len(hex) = start + 6
                 /\ \A k \in (start + 1)..(start + 6) : hex[k] \in HexClass
  IN IF matches
     THEN [isNull |-> FALSE,
           r |-> parseInt16(SubSeq(hex, start + 1, start + 2)),
           g |-> parseInt16(SubSeq(hex, start + 3, start + 4)),
           b |-> parseInt16(SubSeq(hex, start + 5, start + 6))]
     ELSE NullRGB

\* ------------------------------------------------------------ versions
\* compareVersions of version-compatibility.js, on {major, minor, patch}
compareVersions(v1, v2) ==
  IF v1.major # v2.major THEN v1.major - v2.major
  ELSE IF v1.minor # v2.minor THEN v1.minor - v2.minor
  ELSE v1.patch - v2.patch

\* ------------------------------------------------------------ sampling
\* one element of imgData.slice(offset, offset + 4); k is 0-based
ByteAt(imgData, k) == IF k + 1 <= Len(imgData) THEN imgData[k + 1] ELSE UNDEF

\* x > y of JavaScript with x possibly undefined
Gt(x, y) == x # UNDEF /\ x > y

\* the value of i after `i += undefined`
NaN == -2

\* variant: the loop visits every pixel
nextIndexByOne(i, cfg) == i + 1

\* i += this.config.quality
nextIndex(i, cfg) == IF IsUndefined(cfg, "quality") THEN NaN ELSE i + cfg.quality

\* i < pixelCount
loopContinues(i, pixelCount) == i # NaN /\ i < pixelCount

\* variant: alpha has to exceed minAlpha
passesAlphaStrictly(a, cfg) ==
  a = UNDEF \/ (~IsUndefined(cfg, "minAlpha") /\ a > cfg.minAlpha)

\* typeof a === "undefined" || a >= this.config.minAlpha
passesAlpha(a, cfg) ==
  a = UNDEF \/ (~IsUndefined(cfg, "minAlpha") /\ a >= cfg.minAlpha)

\* variant: the threshold itself counts as white
isWhiteFromThreshold(r, g, b, cfg) ==
  /\ ~IsUndefined(cfg, "whiteThreshold")
  /\ r # UNDEF /\ r >= cfg.whiteThreshold
  /\ g # UNDEF /\ g >= cfg.whiteThreshold
  /\ b # UNDEF /\ b >= cfg.whiteThreshold

\* r > whiteThreshold && g > whiteThreshold && b > whiteThreshold
isWhite(r, g, b, cfg) ==
  /\ ~IsUndefined(cfg, "whiteThreshold")
  /\ Gt(r, cfg.whiteThreshold)
  /\ Gt(g, cfg.whiteThreshold)
  /\ Gt(b, cfg.whiteThreshold)

\* one iteration of the for loop of createPixelArray at index i: what it
\* reads and whether it pushes [r, g, b]
loopBody(imgData, cfg, i) ==
  LET offset == i * 4
      r == ByteAt(imgData, offset)
      g == ByteAt(imgData, offset + 1)
      b == ByteAt(imgData, offset + 2)
      a == ByteAt(imgData, offset + 3)
      alpha == passesAlpha(a, cfg)
      white == isWhite(r, g, b, cfg)
  IN [index |-> i, offset |-> offset, r |-> r, g |-> g, b |-> b, a |-> a,
      alpha |-> alpha, white |-> white,
      push |-> alpha /\ (~cfg.excludeWhite \/ ~white)]

\* the for loop of createPixelArray, from index i on
RECURSIVE SampleFrom(_, _, _, _)
SampleFrom(imgData, pixelCount, cfg, i) ==
  IF ~loopContinues(i, pixelCount) THEN <<>>
  ELSE LET it == loopBody(imgData, cfg, i)
           rest == SampleFrom(imgData, pixelCount, cfg, nextIndex(i, cfg))
       IN IF it.push THEN << <<it.r, it.g, it.b>> >> \o rest ELSE rest

createPixelArray(imgData, pixelCount, cfg) == SampleFrom(imgData, pixelCount, cfg, 0)

\* ------------------------------------------------------------ quantizing
RECURSIVE Distinct(_)
Distinct(seq) ==
  IF seq = <<>> THEN <<>>
  ELSE LET init == Distinct(SubSeq(seq, 1, Len(seq) - 1))
           last == seq[Len(seq)]
       IN IF \E k \in 1..Len(init) : init[k] = last THEN init ELSE Append(init, last)

Prefix(seq, n) == SubSeq(seq, 1, Min2(n, Len(seq)))

\* What the quantize package does with a non-empty pixel list is the
\* collaborator's choice q: no colour map, an empty palette, a palette of
\* the distinct samples, or a palette that repeats its first colour.
QuantizerChoices == {"null", "empty", "palette", "duplicate"}

quantize(pixels, maxcolors, q) ==
  CASE q = "null" -> [isNull |-> TRUE, palette |-> <<>>]
    [] q = "empty" -> [isNull |-> FALSE, palette |-> <<>>]
    [] q = "palette" ->
         [isNull |-> FALSE, palette |-> Prefix(Distinct(pixels), maxcolors)]
    [] q = "duplicate" ->
         [isNull |-> FALSE, palette |-> <<pixels[1], pixels[1]>>]

\* variant: the colorCount of the defaults instead of this.config.colorCount
quantizeColorsDefaultCount(pixelArray, cfg, q) ==
  IF Len(pixelArray) = 0
  THEN [isNull |-> TRUE, palette |-> <<>>, called |-> 0, maxcolors |-> <<>>]
  ELSE LET cmap == quantize(pixelArray, DefaultConfig.colorCount, q)
       IN [isNull |-> cmap.isNull,
           palette |-> IF cmap.isNull THEN <<>> ELSE cmap.palette,
           called |-> 1, maxcolors |-> <<DefaultConfig.colorCount>>]

\* variant: no check of the empty list, quantize is called with it and
\* returns no colour map
quantizeColorsNoEmptyCheck(pixelArray, cfg, q) ==
  LET cmap == IF Len(pixelArray) = 0 THEN [isNull |-> TRUE, palette |-> <<>>]
              ELSE quantize(pixelArray, cfg.colorCount, q)
  IN [isNull |-> cmap.isNull,
      palette |-> IF cmap.isNull THEN <<>> ELSE cmap.palette,
      called |-> 1, maxcolors |-> <<cfg.colorCount>>]

\* quantizeColors: null for an empty list, else cmap ? cmap.palette() : null;
\* called counts the invocations of quantize, maxcolors is its second argument
quantizeColors(pixelArray, cfg, q) ==
  IF Len(pixelArray) = 0
  THEN [isNull |-> TRUE, palette |-> <<>>, called |-> 0, maxcolors |-> <<>>]
  ELSE LET cmap == quantize(pixelArray, cfg.colorCount, q)
       IN [isNull |-> cmap.isNull,
           palette |-> IF cmap.isNull THEN <<>> ELSE cmap.palette,
           called |-> 1, maxcolors |-> <<cfg.colorCount>>]

\* ------------------------------------------------------------ errors
\* A message is the sequence of its parts, joined by ": " in the code.
Error(message) == [isError |-> TRUE, message |-> message]
NonError == [isError |-> FALSE, message |-> <<>>]

\* variant: the message of the cause is replaced by "Unknown error"
wrapErrorDropsCause(prefix, error) == Error(<<prefix, "Unknown error">>)

\* new Error(`${prefix}: ${error instanceof Error ? error.message : "Unknown error"}`)
wrapError(prefix, error) ==
  Error(<<prefix>> \o (IF error.isError THEN error.message ELSE <<"Unknown error">>))

ExtractPrefix == "Failed to extract colors"
PalettePrefix == "Failed to get palette"
DominantPrefix == "Failed to get dominant color"
FormatPrefix == "Failed to get colors in format"
StatsPrefix == "Failed to get color statistics"
NoColorsMessage == "No colors found in image"
NullDereference == "Cannot read properties of null"

\* ------------------------------------------------------------ promises
NoValue ==
  [colors |-> <<>>, dominant |-> <<>>, secondary |-> <<>>, pixelCount |-> 0,
   strings |-> <<>>, totalColors |-> 0, brightness |-> <<0, 1>>,
   distribution |-> <<>>]

Pending == [st |-> "pending", value |-> NoValue, error |-> NonError]
Resolved(v) == [st |-> "resolved", value |-> v, error |-> NonError]
Rejected(e) == [st |-> "rejected", value |-> NoValue, error |-> e]

\* ------------------------------------------------------------ the instance
\* The fields of the object: this.config, this.offScreen, this.canvas. A
\* surface is named by the call whose initializeCanvas created it, and
\* getCanvas() of surface s is canvas s.
Instance(cfg, o, c) == [config |-> cfg, offScreen |-> o, canvas |-> c]

Thrown(e) == <<e>>
NotThrown == <<>>

\* initializeCanvas; made is what Skia.Surface.MakeOffscreen returned and size
\* the width and height it was asked for
initializeCanvas(inst, made) ==
  IF made = NULL
  THEN [inst |-> [inst EXCEPT !.offScreen = made],
        size |-> inst.config.canvasSize,
        thrown |-> Thrown(Error(<<"Failed to create offscreen surface">>))]
  ELSE [inst |-> [inst EXCEPT !.offScreen = made, !.canvas = made],
        size |-> inst.config.canvasSize,
        thrown |-> NotThrown]

\* cleanup variants: one that also resets the configuration, one that keeps
\* the canvas reference
cleanupResetsConfig(inst) ==
  [config |-> DefaultConfig, offScreen |-> NULL, canvas |-> NULL]

cleanupKeepsCanvas(inst) == [inst EXCEPT !.offScreen = NULL]

cleanup(inst) == [inst EXCEPT !.offScreen = NULL, !.canvas = NULL]

\* the guard at the top of processSVG and processImage
canvasNotInitialized(inst) == inst.canvas = NULL \/ inst.offScreen = NULL

\* ------------------------------------------------------------ pixel source
Images ==
  { <<>>,
    <<255, 255, 255, 255>>,
    <<0, 0, 255, 0>>,
    <<255, 0, 0, 255, 0, 0, 255, 255>> }

Response(fetch, error, decoded, hasPixels, pixels, q) ==
  [fetch |-> fetch, error |-> error, decoded |-> decoded,
   hasPixels |-> hasPixels, pixels |-> pixels,
   pixelCount |-> Len(pixels) \div 4, q |-> q]

FailedResponses ==
  { Response("rejected", Error(<<"Network error">>), FALSE, FALSE, <<>>, "unused"),
    Response("rejected", NonError, FALSE, FALSE, <<>>, "unused"),
    Response("ok", NonError, FALSE, FALSE, <<>>, "unused"),
    Response("ok", NonError, TRUE, FALSE, <<>>, "unused") }

GoodResponses ==
  { Response("ok", NonError, TRUE, TRUE, img, q) :
      img \in Images, q \in QuantizerChoices \cup {"unused"} }

Responses == FailedResponses \cup GoodResponses

NoResponse == Response("none", NonError, FALSE, FALSE, <<>>, "unused")

\* fetch, decode and pixel read of this response all succeed
ResponseOk(resp) == resp.fetch = "ok" /\ resp.decoded /\ resp.hasPixels

\* ------------------------------------------------------------ processing
NoUse == [drewOn |-> NULL, flushedOn |-> NULL, snapshotOf |-> NULL]

Processed(thrown, pixelArray, use) ==
  [thrown |-> thrown, pixelArray |-> pixelArray, use |-> use]

\* processSVG / processImage has not settled
NotProcessed == Processed(NotThrown, <<>>, NoUse)

\* processSVG after `await Skia.Data.fromURI`
processSVG(inst, resp) ==
  IF resp.fetch # "ok" THEN Processed(Thrown(resp.error), <<>>, NoUse)
  ELSE IF ~resp.decoded
  THEN Processed(Thrown(Error(<<"Failed to load SVG">>)), <<>>, NoUse)
  ELSE IF inst.canvas = NULL
  THEN Processed(Thrown(Error(<<NullDereference>>)), <<>>, NoUse)
  ELSE IF inst.offScreen = NULL
  THEN Processed(Thrown(Error(<<NullDereference>>)), <<>>,
                 [NoUse EXCEPT !.drewOn = inst.canvas])
  ELSE LET use == [drewOn |-> inst.canvas, flushedOn |-> inst.offScreen,
                   snapshotOf |-> inst.offScreen]
       IN IF ~resp.hasPixels
          THEN Processed(Thrown(Error(<<"Failed to read pixels from SVG">>)), <<>>, use)
          ELSE Processed(NotThrown,
                         createPixelArray(resp.pixels, resp.pixelCount, inst.config), use)

\* variant: the pixel read is not checked, an absent buffer is sampled as empty
processImageUncheckedPixels(inst, resp) ==
  IF resp.fetch # "ok" THEN Processed(Thrown(resp.error), <<>>, NoUse)
  ELSE IF ~resp.decoded
  THEN Processed(Thrown(Error(<<"Failed to load image">>)), <<>>, NoUse)
  ELSE IF inst.canvas = NULL
  THEN Processed(Thrown(Error(<<NullDereference>>)), <<>>, NoUse)
  ELSE IF inst.offScreen = NULL
  THEN Processed(Thrown(Error(<<NullDereference>>)), <<>>,
                 [NoUse EXCEPT !.drewOn = inst.canvas])
  ELSE Processed(NotThrown,
                 createPixelArray(resp.pixels, resp.pixelCount, inst.config),
                 [drewOn |-> inst.canvas, flushedOn |-> inst.offScreen,
                  snapshotOf |-> NULL])

\* processImage after `await Skia.Data.fromURI`
processImage(inst, resp) ==
  IF resp.fetch # "ok" THEN Processed(Thrown(resp.error), <<>>, NoUse)
  ELSE IF ~resp.decoded
  THEN Processed(Thrown(Error(<<"Failed to load image">>)), <<>>, NoUse)
  ELSE IF inst.canvas = NULL
  THEN Processed(Thrown(Error(<<NullDereference>>)), <<>>, NoUse)
  ELSE IF inst.offScreen = NULL
  THEN Processed(Thrown(Error(<<NullDereference>>)), <<>>,
                 [NoUse EXCEPT !.drewOn = inst.canvas])
  ELSE LET use == [drewOn |-> inst.canvas, flushedOn |-> inst.offScreen,
                   snapshotOf |-> NULL]
       IN IF ~resp.hasPixels
          THEN Processed(Thrown(Error(<<"Failed to read pixels from image">>)), <<>>, use)
          ELSE Processed(NotThrown,
                         createPixelArray(resp.pixels, resp.pixelCount, inst.config), use)

\* variant: an empty palette is an error
paletteResultRejectsEmpty(pixelArray, cfg, q) ==
  LET palette == quantizeColors(pixelArray, cfg, q)
  IN IF palette.isNull \/ Len(palette.palette) = 0
     THEN Rejected(Error(<<NoColorsMessage>>))
     ELSE Resolved([NoValue EXCEPT !.colors =
            [k \in 1..Len(palette.palette) |-> createColorResult(palette.palette[k])]])

\* variant: the palette is deduplicated before it is formatted
paletteResultDistinct(pixelArray, cfg, q) ==
  LET palette == quantizeColors(pixelArray, cfg, q)
      distinct == Distinct(palette.palette)
  IN IF palette.isNull \/ Len(palette.palette) = 0
     THEN Resolved(NoValue)
     ELSE Resolved([NoValue EXCEPT !.colors =
            [k \in 1..Len(distinct) |-> createColorResult(distinct[k])]])

\* getProminentColors from quantizeColors to the return statement
paletteResult(pixelArray, cfg, q) ==
  LET palette == quantizeColors(pixelArray, cfg, q)
  IN IF palette.isNull \/ Len(palette.palette) = 0
     THEN Resolved(NoValue)
     ELSE Resolved([NoValue EXCEPT !.colors =
            [k \in 1..Len(palette.palette) |-> createColorResult(palette.palette[k])]])

\* variant: a catch block that returns an empty list
extractionFailureSwallowed(error) == Resolved(NoValue)

\* the catch block of getProminentColors
extractionFailure(error) == Rejected(wrapError(ExtractPrefix, error))

\* variant: cleanup at the end of the try block instead of in a finally block
tryCatchFinallySkipsCleanupOnThrow(inst, thrown, returned) ==
  IF thrown # NotThrown
  THEN [inst |-> inst, cleanups |-> 0, released |-> NULL,
        result |-> extractionFailure(thrown[1])]
  ELSE [inst |-> cleanup(inst), cleanups |-> 1, released |-> inst.offScreen,
        result |-> returned]

\* try / catch / finally of getProminentColors: the promise settles with the
\* value returned or with the failure re-thrown by the catch block, after the
\* finally block ran cleanup
tryCatchFinally(inst, thrown, returned) ==
  [inst |-> cleanup(inst),
   cleanups |-> 1,
   released |-> inst.offScreen,
   result |-> IF thrown # NotThrown THEN extractionFailure(thrown[1]) ELSE returned]

\* ------------------------------------------------------------ wrappers
\* n * this.config.<field>
times(n, cfg, f) == IF IsUndefined(cfg, f) THEN NaN ELSE n * cfg[f]

\* variant: pixelCount is the number of colours
getPaletteCountsColors(inner, cfg) ==
  IF inner.st = "rejected" THEN Rejected(wrapError(PalettePrefix, inner.error))
  ELSE IF Len(inner.value.colors) = 0
  THEN Rejected(wrapError(PalettePrefix, Error(<<NoColorsMessage>>)))
  ELSE LET colors == inner.value.colors
       IN Resolved([NoValue EXCEPT !.colors = colors,
                                   !.dominant = <<colors[1]>>,
                                   !.secondary = SubSeq(colors, 2, Len(colors)),
                                   !.pixelCount = Len(colors)])

\* variant: secondary is the whole list
getPaletteNoSlice(inner, cfg) ==
  IF inner.st = "rejected" THEN Rejected(wrapError(PalettePrefix, inner.error))
  ELSE IF Len(inner.value.colors) = 0
  THEN Rejected(wrapError(PalettePrefix, Error(<<NoColorsMessage>>)))
  ELSE LET colors == inner.value.colors
       IN Resolved([NoValue EXCEPT !.colors = colors,
                                   !.dominant = <<colors[1]>>,
                                   !.secondary = colors,
                                   !.pixelCount = times(Len(colors), cfg, "quality")])

\* getPalette after `await this.getProminentColors`
getPalette(inner, cfg) ==
  IF inner.st = "rejected" THEN Rejected(wrapError(PalettePrefix, inner.error))
  ELSE IF Len(inner.value.colors) = 0
  THEN Rejected(wrapError(PalettePrefix, Error(<<NoColorsMessage>>)))
  ELSE LET colors == inner.value.colors
       IN Resolved([NoValue EXCEPT !.colors = colors,
                                   !.dominant = <<colors[1]>>,
                                   !.secondary = SubSeq(colors, 2, Len(colors)),
                                   !.pixelCount = times(Len(colors), cfg, "quality")])

\* variant: no check of the empty list, colors[0] is undefined
getDominantColorNoEmptyCheck(inner) ==
  IF inner.st = "rejected" THEN Rejected(wrapError(DominantPrefix, inner.error))
  ELSE Resolved([NoValue EXCEPT !.dominant =
         IF Len(inner.value.colors) = 0 THEN <<>> ELSE <<inner.value.colors[1]>>])

\* getDominantColor after `await this.getProminentColors`
getDominantColor(inner) ==
  IF inner.st = "rejected" THEN Rejected(wrapError(DominantPrefix, inner.error))
  ELSE IF Len(inner.value.colors) = 0
  THEN Rejected(wrapError(DominantPrefix, Error(<<NoColorsMessage>>)))
  ELSE Resolved([NoValue EXCEPT !.dominant = <<inner.value.colors[1]>>])

\* getColorsInFormat after `await this.getProminentColors`
getColorsInFormat(inner, format) ==
  IF inner.st = "rejected" THEN Rejected(wrapError(FormatPrefix, inner.error))
  ELSE Resolved([NoValue EXCEPT !.strings =
         [k \in 1..Len(inner.value.colors) |->
            formatRGB(inner.value.colors[k].rgb, format)]])

RECURSIVE SumChannels(_)
SumChannels(colors) ==
  IF colors = <<>> THEN 0
  ELSE colors[1].rgb[1] + colors[1].rgb[2] + colors[1].rgb[3]
         + SumChannels(Tail(colors))

\* getColorStatistics after `await this.getPalette`; a fraction n/d is <<n, d>>
getColorStatistics(palette) ==
  IF palette.st = "rejected" THEN Rejected(wrapError(StatsPrefix, palette.error))
  ELSE LET colors == palette.value.colors
           n == Len(colors)
           hexes == {colors[k].formats.hex : k \in 1..n}
           \* forEach assigns in index order: the last index of a hex wins
           lastIndex(h) == CHOOSE k \in 1..n :
                             /\ colors[k].formats.hex = h
                             /\ \A j \in (k + 1)..n : colors[j].formats.hex # h
       IN Resolved([NoValue EXCEPT
            !.totalColors = n,
            !.brightness = <<SumChannels(colors), 3 * n>>,
            !.distribution = [h \in hexes |-> <<n - (lastIndex(h) - 1), n>>]])

\* ------------------------------------------------------------ state
MaxCalls == 2    \* calls in flight on the instance at a time

Calls == 1..MaxCalls

Operations ==
  {"getProminentColors", "getPalette", "getDominantColor", "getColorsInFormat",
   "getColorStatistics"}

URIs == { <<"a", ".", "j", "p", "g">>, <<"a", ".", "S", "V", "G">> }

FormatsOf(op) == IF op = "getColorsInFormat" THEN {"hex", "rgbString"} ELSE {"none"}

ConstructorArgs == { NoProperties, Partial([quality |-> 1], {}, {}) }

ConfigUpdates ==
  { Partial([quality |-> 1, colorCount |-> 1, excludeWhite |-> FALSE], {}, {}) }

VARIABLES
  config,     \* this.config
  offScreen,  \* this.offScreen
  canvas,     \* this.canvas
  calls,      \* the calls of public operations: position, arguments, promises
  finished,   \* the getProminentColors invocation the last step completed
  copies,     \* the objects getConfig returned, as their holders see them
  sampler,    \* an activation of createPixelArray: its arguments and locals
  evaluation  \* a call of an exported function: its arguments and its value

vars == <<config, offScreen, canvas, calls, finished, copies, sampler, evaluation>>

\* no call of an exported function is observed
NoEvaluation == [pc |-> "none"]

\* no activation of createPixelArray is observed
NoSampler ==
  [pc |-> "none", imgData |-> <<>>, pixelCount |-> 0, cfg |-> DefaultConfig,
   i |-> 0, pixelArray |-> <<>>, visits |-> <<>>]

IdleCall ==
  [pc |-> "idle", op |-> "none", uri |-> <<>>, format |-> "none",
   \* locals of getProminentColors, kept while its promise is pending
   made |-> NULL,            \* what MakeOffscreen returned to this call
   alone |-> TRUE,           \* no other call was in flight during this call
   startedFresh |-> TRUE,    \* if no other call was in flight when it started,
                             \* offScreen and canvas were null then
   followsFailure |-> FALSE, \* a getProminentColors call that ran alone and
                             \* started right after a call was rejected
   response |-> NoResponse,  \* what the pixel source answered this call
   processed |-> NotProcessed, \* how processSVG / processImage settled
   size |-> NULL,            \* the canvasSize its surface was asked with
   sampledWith |-> <<>>,     \* the configuration createPixelArray read
   maxcolors |-> <<>>,       \* the colorCount quantize was called with
   inner |-> Pending,        \* promise of getProminentColors
   palette |-> Pending,      \* promise of getPalette
   outcome |-> Pending]      \* promise of the public operation

NoFinished ==
  [call |-> 0, uri |-> <<>>, made |-> NULL, response |-> NoResponse,
   use |-> NoUse, released |-> NULL, cleanups |-> 0, quantized |-> 0,
   samples |-> <<>>, alone |-> TRUE, startedFresh |-> TRUE,
   followsFailure |-> FALSE, size |-> NULL, sampledWith |-> <<>>,
   maxcolors |-> <<>>, result |-> Pending]

InFlight(c) == calls[c].pc \notin {"idle", "settled"}

NoneInFlight == \A c \in Calls : ~InFlight(c)

\* Among the calls in flight at most one is a call of a wrapping operation
\* (getPalette, getDominantColor, getColorsInFormat, getColorStatistics); the
\* others are calls of getProminentColors. The continuation of a wrapping
\* operation reads this.config and the promise it awaited, nothing else.
OuterInFlight == {c \in Calls : InFlight(c) /\ calls[c].op # "getProminentColors"}

\* A settled promise is observed in the state its call settles in; the next
\* step of the instance finds the record of that call free again.
Retired == [c \in Calls |-> IF calls[c].pc = "settled" THEN IdleCall ELSE calls[c]]

\* position after the promise of getProminentColors settled
AfterInner(op) == IF op = "getProminentColors" THEN "settled" ELSE "awaitInner"

\* the instance after construction with the argument partial
Constructed(partial) ==
  /\ config = constructor(partial)
  /\ offScreen = NULL
  /\ canvas = NULL
  /\ calls = [c \in Calls |-> IdleCall]
  /\ finished = NoFinished
  /\ copies = <<>>

Init ==
  /\ \E partial \in ConstructorArgs : Constructed(partial)
  /\ sampler = NoSampler
  /\ evaluation = NoEvaluation

\* A public operation is invoked: getProminentColors runs from the try to
\* `await Skia.Data.fromURI(sourceURI)`, or to its rejection.
Start(c, op, uri, format, made) ==
  /\ ~InFlight(c)
  /\ \A d \in 1..(c - 1) : InFlight(d)
  /\ op # "getProminentColors" => OuterInFlight = {}
  /\ LET inst == Instance(config, offScreen, canvas)
         ic == initializeCanvas(inst, made)
         thrown == IF ic.thrown # NotThrown THEN ic.thrown
                   ELSE IF canvasNotInitialized(ic.inst)
                   THEN Thrown(Error(<<"Canvas not initialized">>))
                   ELSE NotThrown
         done == tryCatchFinally(ic.inst, thrown, Pending)
         alone == \A d \in Calls \ {c} : ~InFlight(d)
         fresh == alone => (offScreen = NULL /\ canvas = NULL)
         after == IF thrown # NotThrown THEN done.inst ELSE ic.inst
         follows == /\ alone /\ op = "getProminentColors"
                    /\ finished.result.st = "rejected"
         suspended ==
           [IdleCall EXCEPT
              !.pc = "awaitFetch", !.op = op, !.uri = uri, !.format = format,
              !.made = made, !.alone = alone, !.startedFresh = fresh,
              !.followsFailure = follows, !.size = ic.size]
         rejected ==
           [IdleCall EXCEPT
              !.pc = AfterInner(op), !.op = op, !.format = format,
              !.inner = done.result,
              !.outcome = IF op = "getProminentColors" THEN done.result ELSE Pending]
         started == IF thrown # NotThrown THEN rejected ELSE suspended
     IN /\ config' = after.config
        /\ offScreen' = after.offScreen
        /\ canvas' = after.canvas
        /\ calls' = [d \in Calls |->
                       IF d = c THEN started
                       ELSE IF InFlight(d)
                       THEN [calls[d] EXCEPT !.alone = FALSE,
                                             !.followsFailure = FALSE]
                       ELSE IdleCall]
        /\ finished' = IF thrown # NotThrown
                       THEN [NoFinished EXCEPT
                               !.call = c, !.uri = uri, !.made = made,
                               !.released = done.released,
                               !.cleanups = done.cleanups,
                               !.alone = alone, !.startedFresh = fresh,
                               !.followsFailure = follows,
                               !.size = ic.size,
                               !.result = done.result]
                       ELSE NoFinished
  /\ UNCHANGED <<copies, sampler, evaluation>>

\* The pixel source answered: the rest of processSVG / processImage, which
\* settles the promise getProminentColors awaits.
Resume(c, resp) ==
  /\ calls[c].pc = "awaitFetch"
  /\ LET inst == Instance(config, offScreen, canvas)
         call == calls[c]
         p == IF isURLEndsWithSVG(call.uri)
              THEN processSVG(inst, resp)
              ELSE processImage(inst, resp)
         quantizes == p.thrown = NotThrown /\ Len(p.pixelArray) > 0
     IN /\ (resp.q = "unused") <=> ~quantizes
        /\ calls' = [Retired EXCEPT ![c] =
             [call EXCEPT !.pc = "awaitProcess",
                          !.response = resp,
                          !.processed = p,
                          !.sampledWith = IF p.thrown = NotThrown
                                          THEN <<config>> ELSE <<>>]]
  /\ finished' = NoFinished
  /\ UNCHANGED <<config, offScreen, canvas, copies, sampler, evaluation>>

\* The promise of processSVG / processImage settled: getProminentColors goes
\* on after its await with quantizeColors and createColorResult, or with its
\* catch block, and ends with its finally block.
Settle(c) ==
  /\ calls[c].pc = "awaitProcess"
  /\ LET inst == Instance(config, offScreen, canvas)
         call == calls[c]
         p == call.processed
         done == tryCatchFinally(inst, p.thrown,
                                 paletteResult(p.pixelArray, config, call.response.q))
         palette == quantizeColors(p.pixelArray, config, call.response.q)
         maxcolors == IF p.thrown = NotThrown THEN palette.maxcolors ELSE <<>>
         quantized == IF p.thrown = NotThrown THEN palette.called ELSE 0
     IN /\ config' = done.inst.config
        /\ offScreen' = done.inst.offScreen
        /\ canvas' = done.inst.canvas
        /\ calls' = [Retired EXCEPT ![c] =
             [call EXCEPT !.pc = AfterInner(call.op),
                          !.uri = <<>>, !.made = NULL,
                          !.alone = TRUE, !.startedFresh = TRUE,
                          !.followsFailure = FALSE,
                          !.response = NoResponse,
                          !.processed = NotProcessed,
                          !.maxcolors = maxcolors,
                          !.inner = done.result,
                          !.outcome = IF call.op = "getProminentColors"
                                      THEN done.result ELSE Pending]]
        /\ finished' = [call |-> c, uri |-> call.uri, made |-> call.made,
                        response |-> call.response, use |-> p.use,
                        released |-> done.released, cleanups |-> done.cleanups,
                        quantized |-> quantized,
                        samples |-> p.pixelArray, alone |-> call.alone,
                        startedFresh |-> call.startedFresh,
                        followsFailure |-> call.followsFailure,
                        size |-> call.size, sampledWith |-> call.sampledWith,
                        maxcolors |-> maxcolors,
                        result |-> done.result]
  /\ UNCHANGED <<copies, sampler, evaluation>>

\* The continuation of getPalette, getDominantColor or getColorsInFormat after
\* the promise of getProminentColors settled; for getColorStatistics, the
\* continuation of its inner getPalette.
OuterResume(c) ==
  /\ calls[c].pc = "awaitInner"
  /\ LET call == calls[c]
         palette == IF call.op \in {"getPalette", "getColorStatistics"}
                    THEN getPalette(call.inner, config) ELSE Pending
         outcome == CASE call.op = "getPalette" -> palette
                      [] call.op = "getDominantColor" -> getDominantColor(call.inner)
                      [] call.op = "getColorsInFormat" ->
                           getColorsInFormat(call.inner, call.format)
                      [] call.op = "getColorStatistics" -> Pending
     IN calls' = [Retired EXCEPT ![c] =
          [call EXCEPT !.pc = IF call.op = "getColorStatistics"
                              THEN "awaitPalette" ELSE "settled",
                       !.palette = palette,
                       !.outcome = outcome]]
  /\ finished' = NoFinished
  /\ UNCHANGED <<config, offScreen, canvas, copies, sampler, evaluation>>

\* The continuation of getColorStatistics after the promise of getPalette settled.
StatsResume(c) ==
  /\ calls[c].pc = "awaitPalette"
  /\ calls' = [Retired EXCEPT ![c] =
       [calls[c] EXCEPT !.pc = "settled",
                        !.outcome = getColorStatistics(calls[c].palette)]]
  /\ finished' = NoFinished
  /\ UNCHANGED <<config, offScreen, canvas, copies, sampler, evaluation>>

\* this.config is assigned a new object: no object returned earlier is
\* this.config any more
detached == [k \in 1..Len(copies) |-> [copies[k] EXCEPT !.sameObject = FALSE]]

UpdateConfig(newConfig) ==
  /\ config' = updateConfig(config, newConfig)
  /\ copies' = detached
  /\ calls' = Retired
  /\ finished' = NoFinished
  /\ UNCHANGED <<offScreen, canvas, sampler, evaluation>>

ResetConfig ==
  /\ config' = resetConfig
  /\ copies' = detached
  /\ calls' = Retired
  /\ finished' = NoFinished
  /\ UNCHANGED <<offScreen, canvas, sampler, evaluation>>

\* The wrapping operations are exercised with a failing answer of the pixel
\* source, an all-white image and a two-colour image.
WrapperResponses ==
  { Response("rejected", Error(<<"Network error">>), FALSE, FALSE, <<>>, "unused"),
    Response("ok", NonError, TRUE, TRUE, <<255, 255, 255, 255>>, "unused"),
    Response("ok", NonError, TRUE, TRUE,
             <<255, 0, 0, 255, 0, 0, 255, 255>>, "palette") }

\* the raster source the concurrent calls are given
ImageURIs == { <<"a", ".", "j", "p", "g">> }

\* every public operation, concurrently: one call of a wrapping operation
\* with each of its answers, beside getProminentColors calls whose fetch
\* fails
Next ==
  \/ \E c \in Calls, op \in Operations, uri \in ImageURIs, made \in {NULL} \cup Calls :
       \E format \in FormatsOf(op) :
         made \in {NULL, c} /\ Start(c, op, uri, format, made)
  \/ \E c \in Calls, resp \in WrapperResponses :
       /\ calls[c].op = "getProminentColors" => resp.fetch = "rejected"
       /\ Resume(c, resp)
  \/ \E c \in Calls : Settle(c)
  \/ \E c \in Calls : OuterResume(c)
  \/ \E c \in Calls : StatsResume(c)
  \/ \E newConfig \in ConfigUpdates : UpdateConfig(newConfig)
  \/ ResetConfig

Spec == Init /\ [][Next]_vars

\* The concurrent calls are exercised with a failing fetch, a failing pixel
\* read, an all-white image and a two-colour image (whose quantizer answer is
\* unused by a call that fails before it samples).
CallResponses ==
  { Response("rejected", Error(<<"Network error">>), FALSE, FALSE, <<>>, "unused"),
    Response("ok", NonError, TRUE, FALSE, <<>>, "unused"),
    Response("ok", NonError, TRUE, TRUE, <<255, 255, 255, 255>>, "unused"),
    Response("ok", NonError, TRUE, TRUE,
             <<255, 0, 0, 255, 0, 0, 255, 255>>, "palette"),
    Response("ok", NonError, TRUE, TRUE,
             <<255, 0, 0, 255, 0, 0, 255, 255>>, "unused") }

\* getProminentColors alone, concurrently
NextCalls ==
  \/ \E c \in Calls, uri \in ImageURIs, made \in {NULL} \cup Calls :
       made \in {NULL, c} /\ Start(c, "getProminentColors", uri, "none", made)
  \/ \E c \in Calls, resp \in CallResponses : Resume(c, resp)
  \/ \E c \in Calls : Settle(c)
  \/ \E newConfig \in ConfigUpdates : UpdateConfig(newConfig)
  \/ ResetConfig

SpecCalls == Init /\ [][NextCalls]_vars

\* every public operation, one call at a time, with every source, every
\* answer of the pixel source and every answer of the quantizer
NextOne ==
  \/ \E op \in Operations, uri \in URIs, made \in {NULL, 1} :
       \E format \in FormatsOf(op) :
         NoneInFlight /\ Start(1, op, uri, format, made)
  \/ \E resp \in Responses : Resume(1, resp)
  \/ Settle(1)
  \/ OuterResume(1)
  \/ StatsResume(1)
  \/ \E newConfig \in ConfigUpdates : UpdateConfig(newConfig)
  \/ ResetConfig

SpecOne == Init /\ [][NextOne]_vars

\* the same source for every call, an unchanged configuration, a pixel source
\* and a quantizer that answer every call alike (the quantizer, when the call
\* gets as far as calling it)
SameResponse ==
  Response("ok", NonError, TRUE, TRUE, <<255, 0, 0, 255, 0, 0, 255, 255>>, "palette")

NextSame ==
  \/ \E c \in Calls, op \in Operations :
       \E format \in FormatsOf(op) :
         Start(c, op, <<"a", ".", "j", "p", "g">>, format, c)
  \/ \E c \in Calls, q \in {SameResponse.q, "unused"} :
       Resume(c, [SameResponse EXCEPT !.q = q])
  \/ \E c \in Calls : Settle(c)
  \/ \E c \in Calls : OuterResume(c)
  \/ \E c \in Calls : StatsResume(c)

SpecSame == Init /\ [][NextSame]_vars

\* ------------------------------------------------ configuration snapshots
\* updates of the fields a call reads, canvasSize among them
SnapshotUpdates == ConfigUpdates \cup { Partial([canvasSize |-> 64], {}, {}) }

\* getProminentColors and getPalette, one call at a time, with updateConfig
\* and resetConfig at any point of the call
NextSnapshot ==
  \/ \E op \in {"getProminentColors", "getPalette"}, uri \in ImageURIs, made \in {NULL, 1} :
       NoneInFlight /\ Start(1, op, uri, "none", made)
  \/ \E resp \in WrapperResponses : Resume(1, resp)
  \/ Settle(1)
  \/ OuterResume(1)
  \/ \E newConfig \in SnapshotUpdates : UpdateConfig(newConfig)
  \/ ResetConfig

SpecSnapshot == Init /\ [][NextSnapshot]_vars

\* ------------------------------------------------ configuration management
MaxCopies == 2   \* objects returned by getConfig that their holders keep

\* getConfig is invoked and its caller keeps the object returned
GetConfig ==
  /\ Len(copies) < MaxCopies
  /\ copies' = Append(copies, getConfig(config))
  /\ calls' = Retired
  /\ finished' = NoFinished
  /\ UNCHANGED <<config, offScreen, canvas, sampler, evaluation>>

\* object.f = v
assign(object, f, v) ==
  [object EXCEPT ![f] = v, !.undefined = @ \ {f}, !.null = @ \ {f}]

\* The holder of the k-th returned object assigns one of its properties
\* (`config1.quality = 999`); the write is seen through every reference to
\* that object.
ModifyCopy(k, f, v) ==
  /\ k \in 1..Len(copies)
  /\ copies' = [j \in 1..Len(copies) |->
                  IF j = k \/ (copies[k].sameObject /\ copies[j].sameObject)
                  THEN [copies[j] EXCEPT !.value = assign(@, f, v)]
                  ELSE copies[j]]
  /\ config' = IF copies[k].sameObject THEN assign(config, f, v) ELSE config
  /\ calls' = Retired
  /\ finished' = NoFinished
  /\ UNCHANGED <<offScreen, canvas, sampler, evaluation>>

\* constructor arguments with absent, undefined and null properties
ConstructorPartials ==
  ConstructorArgs \cup
    { Partial(<<>>, {"quality", "excludeWhite"}, {"colorCount", "canvasSize"}),
      Partial([quality |-> 1], {"minAlpha"}, {"whiteThreshold"}) }

\* updateConfig arguments: values, an empty object, a property that holds
\* undefined and one that holds null
ConfigPartials ==
  ConfigUpdates \cup
    { NoProperties,
      Partial(<<>>, {"quality"}, {"canvasSize"}) }

\* the configuration operations, with one getProminentColors call at a time
\* whose fetch is rejected
NextConfig ==
  \/ \E uri \in URIs : Start(1, "getProminentColors", uri, "none", 1)
  \/ \E resp \in FailedResponses : resp.error.isError /\ Resume(1, resp)
  \/ Settle(1)
  \/ \E newConfig \in ConfigPartials : UpdateConfig(newConfig)
  \/ ResetConfig
  \/ GetConfig
  \/ \E k \in 1..MaxCopies : ModifyCopy(k, "quality", 999)

InitConfig ==
  /\ \E partial \in ConstructorPartials : Constructed(partial)
  /\ sampler = NoSampler
  /\ evaluation = NoEvaluation

SpecConfig == InitConfig /\ [][NextConfig]_vars

\* ------------------------------------------------------------ the sampler
MaxPixels == 2   \* pixels in a buffer; pixelCount goes one beyond

\* RGBA pixels around the thresholds of the default configuration
SamplerPixels ==
  { <<251, 251, 251, 125>>, <<250, 250, 250, 255>>,
    <<251, 251, 250, 124>>, <<10, 20, 30, 126>> }

RECURSIVE BuffersOf(_)
BuffersOf(n) ==
  IF n = 0 THEN { <<>> }
  ELSE LET shorter == BuffersOf(n - 1)
       IN shorter \cup {b \o px : b \in {x \in shorter : Len(x) = 4 * (n - 1)},
                                  px \in SamplerPixels}

\* whole buffers, and buffers whose last pixel has no alpha byte
SamplerBuffers ==
  BuffersOf(MaxPixels) \cup
    {SubSeq(b, 1, Len(b) - 1) : b \in BuffersOf(MaxPixels) \ { <<>> }}

SamplerConfigs ==
  {updateConfig(DefaultConfig,
                Partial([quality |-> q, minAlpha |-> m, excludeWhite |-> e], {}, {})) :
     q \in 1..MaxPixels, m \in {0, 125, 255}, e \in BOOLEAN}
    \cup {updateConfig(DefaultConfig, Partial(<<>>, {"quality"}, {}))}

\* createPixelArray is entered
SamplerEntered ==
  {[pc |-> "loop", imgData |-> imgData, pixelCount |-> pixelCount, cfg |-> cfg,
    i |-> 0, pixelArray |-> <<>>, visits |-> <<>>] :
     imgData \in SamplerBuffers, pixelCount \in 0..(MaxPixels + 1),
     cfg \in SamplerConfigs}

\* one iteration of the for loop
Iterate ==
  /\ sampler.pc = "loop"
  /\ loopContinues(sampler.i, sampler.pixelCount)
  /\ LET it == loopBody(sampler.imgData, sampler.cfg, sampler.i)
     IN sampler' =
          [sampler EXCEPT
             !.i = nextIndex(sampler.i, sampler.cfg),
             !.visits = Append(@, it),
             !.pixelArray = IF it.push THEN Append(@, <<it.r, it.g, it.b>>) ELSE @]
  /\ UNCHANGED <<config, offScreen, canvas, calls, finished, copies, evaluation>>

\* the loop condition fails: return pixelArray
Return ==
  /\ sampler.pc = "loop"
  /\ ~loopContinues(sampler.i, sampler.pixelCount)
  /\ sampler' = [sampler EXCEPT !.pc = "done"]
  /\ UNCHANGED <<config, offScreen, canvas, calls, finished, copies, evaluation>>

NextSampler == Iterate \/ Return

InitSampler ==
  /\ Constructed(NoProperties)
  /\ sampler \in SamplerEntered
  /\ evaluation = NoEvaluation

SpecSampler == InitSampler /\ [][NextSampler]_vars

\* ------------------------------------------------------------ termination
\* updateConfig arguments, a stride of 0 among them
LiveUpdates == ConfigUpdates \cup { Partial([quality |-> 0], {}, {}) }

\* answers of the pixel source: the failing ones, a transparent pixel, and a
\* transparent pixel followed by a red one
LiveResponses ==
  FailedResponses \cup
    { Response("ok", NonError, TRUE, TRUE, img, "unused") :
        img \in { <<0, 0, 255, 0>>, <<0, 0, 255, 0, 255, 0, 0, 255>> } }

\* The pixel source answered call c: processSVG / processImage up to the
\* call of createPixelArray, which is entered with the buffer read.
EnterLoop(c, resp) ==
  /\ calls[c].pc = "awaitFetch"
  /\ sampler.pc = "none"
  /\ LET inst == Instance(config, offScreen, canvas)
         call == calls[c]
         unread == [resp EXCEPT !.pixels = <<>>, !.pixelCount = 0]
         before == IF isURLEndsWithSVG(call.uri)
                   THEN processSVG(inst, unread)
                   ELSE processImage(inst, unread)
     IN IF before.thrown # NotThrown
        THEN /\ calls' = [Retired EXCEPT ![c] =
                  [call EXCEPT !.pc = "awaitProcess", !.response = resp,
                               !.processed = before]]
             /\ sampler' = sampler
        ELSE /\ calls' = [Retired EXCEPT ![c] =
                  [call EXCEPT !.pc = "sampling", !.response = resp,
                               !.processed = before]]
             /\ sampler' = [pc |-> "loop", imgData |-> resp.pixels,
                            pixelCount |-> resp.pixelCount, cfg |-> config,
                            i |-> 0, pixelArray |-> <<>>, visits |-> <<>>]
  /\ finished' = NoFinished
  /\ UNCHANGED <<config, offScreen, canvas, copies, evaluation>>

\* one iteration of the for loop, its reads not recorded
LoopIteration ==
  /\ sampler.pc = "loop"
  /\ loopContinues(sampler.i, sampler.pixelCount)
  /\ LET it == loopBody(sampler.imgData, sampler.cfg, sampler.i)
     IN sampler' =
          [sampler EXCEPT
             !.i = nextIndex(sampler.i, sampler.cfg),
             !.pixelArray = IF it.push THEN Append(@, <<it.r, it.g, it.b>>) ELSE @]
  /\ UNCHANGED <<config, offScreen, canvas, calls, finished, copies, evaluation>>

\* createPixelArray returned to processSVG / processImage, which returns the
\* list; q is what the quantizer will answer for it
LeaveLoop(c, q) ==
  /\ calls[c].pc = "sampling"
  /\ sampler.pc = "done"
  /\ (q = "unused") <=> (sampler.pixelArray = <<>>)
  /\ calls' = [calls EXCEPT ![c] =
       [@ EXCEPT !.pc = "awaitProcess",
                 !.response = [@ EXCEPT !.q = q],
                 !.processed = [@ EXCEPT !.pixelArray = sampler.pixelArray],
                 !.sampledWith = <<config>>]]
  /\ sampler' = NoSampler
  /\ UNCHANGED <<config, offScreen, canvas, finished, copies, evaluation>>

\* getProminentColors, one call at a time, its sampling loop iteration by
\* iteration; the configuration changes between the steps of the call, never
\* within the loop
NextLive ==
  \/ \E uri \in ImageURIs, made \in {NULL, 1} :
       /\ NoneInFlight /\ sampler.pc = "none"
       /\ Start(1, "getProminentColors", uri, "none", made)
  \/ \E resp \in LiveResponses : EnterLoop(1, resp)
  \/ LoopIteration
  \/ Return
  \/ \E q \in QuantizerChoices \cup {"unused"} : LeaveLoop(1, q)
  \/ Settle(1)
  \/ \E newConfig \in LiveUpdates : sampler.pc = "none" /\ UpdateConfig(newConfig)
  \/ sampler.pc = "none" /\ ResetConfig

\* The pixel source answers every call, and the engine runs every
\* continuation that is ready and every iteration of a loop that goes on.
SpecLive ==
  /\ Init
  /\ [][NextLive]_vars
  /\ WF_vars(\E resp \in LiveResponses : EnterLoop(1, resp))
  /\ WF_vars(LoopIteration)
  /\ WF_vars(Return)
  /\ WF_vars(\E q \in QuantizerChoices \cup {"unused"} : LeaveLoop(1, q))
  /\ WF_vars(Settle(1))

\* ------------------------------------------------------------ routing
\* sources by suffix: raster and SVG in either case, a suffix followed by a
\* query string or a fragment, an unknown suffix, no suffix
RouteURIs ==
  { <<"a", ".", "j", "p", "g">>, <<"a", ".", "J", "P", "G">>,
    <<"a", ".", "s", "v", "g">>, <<"a", ".", "S", "V", "G">>,
    <<"a", ".", "j", "p", "g", "?", "w", "=", "1">>,
    <<"a", ".", "s", "v", "g", "#", "s">>,
    <<"a", ".", "t", "x", "t">>, <<"a">> }

\* getProminentColors, one call at a time, on every source
NextRoute ==
  \/ \E uri \in RouteURIs, made \in {NULL, 1} :
       NoneInFlight /\ Start(1, "getProminentColors", uri, "none", made)
  \/ \E resp \in Responses : Resume(1, resp)
  \/ Settle(1)

SpecRoute == Init /\ [][NextRoute]_vars

\* ------------------------------------------------------------ statistics
\* answers of the pixel source and palettes of the quantizer, a palette that
\* repeats a colour among them
StatsResponses == {resp \in GoodResponses : resp.q \in {"palette", "duplicate", "unused"}}

\* getColorStatistics, one call at a time
NextStats ==
  \/ \E c \in Calls, uri \in URIs, made \in {NULL} \cup Calls :
       made \in {NULL, c} /\ Start(c, "getColorStatistics", uri, "none", made)
  \/ \E c \in Calls, resp \in StatsResponses : Resume(c, resp)
  \/ \E c \in Calls : Settle(c)
  \/ \E c \in Calls : OuterResume(c)
  \/ \E c \in Calls : StatsResume(c)
  \/ \E newConfig \in ConfigUpdates : UpdateConfig(newConfig)
  \/ ResetConfig

SpecStats == Init /\ [][NextStats]_vars

\* ------------------------------------------------------------ hex round trip
\* channel values at the ends of the range and around the one-digit limit
EdgeChannels == {0, 9, 10, 15, 16, 255}

\* every value of one channel with the other two at the edges
HexTriples ==
  {t \in (0..255) \X EdgeChannels \X EdgeChannels : TRUE}
    \cup {<<t[2], t[1], t[3]>> : t \in (0..255) \X EdgeChannels \X EdgeChannels}
    \cup {<<t[2], t[3], t[1]>> : t \in (0..255) \X EdgeChannels \X EdgeChannels}

\* strings handed to hexToRgb: those of the tests ("#ff5733", "ff5733",
\* "#FF5733", "#invalid", "#fff", "") and strings one character off the pattern
HexStrings ==
  { <<"#","f","f","5","7","3","3">>, <<"f","f","5","7","3","3">>,
    <<"#","F","F","5","7","3","3">>, <<"#","i","n","v","a","l","i","d">>,
    <<"#","f","f","f">>, <<>>, <<"#">>,
    <<"#","f","f","5","7","3">>, <<"#","f","f","5","7","3","3","0">>,
    <<"f","f","5","7","3","3","0">>, <<"#","#","f","f","5","7","3","3">>,
    <<"#","f","f","5","7","3","g">>, <<"f","f","5","7","3","3","#">>,
    <<"#","f","f","5","7","3"," ">>, <<" ","f","f","5","7","3","3">>,
    <<"#","a","B","c","D","e","F">>, <<"0","0","0","0","0","0">> }

\* rgbToHex is called with a triple, or hexToRgb with a string
HexEntered ==
  {[pc |-> "rgbToHex", args |-> t, hex |-> <<>>, rgb |-> NullRGB] : t \in HexTriples}
    \cup {[pc |-> "hexToRgb", args |-> <<>>, hex |-> h, rgb |-> NullRGB] :
            h \in HexStrings}

\* const hex = rgbToHex(r, g, b)
RgbToHex ==
  /\ evaluation.pc = "rgbToHex"
  /\ evaluation' =
       [evaluation EXCEPT
          !.pc = "hexToRgb",
          !.hex = rgbToHex(evaluation.args[1], evaluation.args[2], evaluation.args[3])]
  /\ UNCHANGED <<config, offScreen, canvas, calls, finished, copies, sampler>>

\* const rgb = hexToRgb(hex)
HexToRgb ==
  /\ evaluation.pc = "hexToRgb"
  /\ evaluation' = [evaluation EXCEPT !.pc = "done", !.rgb = hexToRgb(evaluation.hex)]
  /\ UNCHANGED <<config, offScreen, canvas, calls, finished, copies, sampler>>

NextHex == RgbToHex \/ HexToRgb

InitHex ==
  /\ Constructed(NoProperties)
  /\ sampler = NoSampler
  /\ evaluation \in HexEntered

SpecHex == InitHex /\ [][NextHex]_vars

\* ------------------------------------------------------------ version order
MaxComponent == 3   \* largest major, minor or patch number compared

Versions ==
  [major : 0..MaxComponent, minor : 0..MaxComponent, patch : 0..MaxComponent]

VersionsEntered ==
  {[pc |-> "compareVersions", v1 |-> v1, v2 |-> v2, value |-> 0] :
     v1 \in Versions, v2 \in Versions}

\* compareVersions(v1, v2) returns
CompareVersions ==
  /\ evaluation.pc = "compareVersions"
  /\ evaluation' =
       [evaluation EXCEPT !.pc = "done",
                          !.value = compareVersions(evaluation.v1, evaluation.v2)]
  /\ UNCHANGED <<config, offScreen, canvas, calls, finished, copies, sampler>>

NextVersions == CompareVersions

InitVersions ==
  /\ Constructed(NoProperties)
  /\ sampler = NoSampler
  /\ evaluation \in VersionsEntered

SpecVersions == InitVersions /\ [][NextVersions]_vars

\* ------------------------------------------------------------ properties
Contains(message, part) == \E k \in 1..Len(message) : message[k] = part

Done == finished.call # 0

\* C1: every call whose own surface creation, fetch, decode and pixel read
\* succeed resolves, whatever the other calls on the instance do.
C1_ConcurrentCallsResolve ==
  (Done /\ finished.made # NULL /\ ResponseOk(finished.response))
    => finished.result.st = "resolved"

\* C2: a call draws on, flushes and snapshots only the surface it acquired
\* itself, and its cleanup clears only that surface.
C2_SurfaceScopedToCall ==
  Done =>
    /\ finished.use.drewOn \in {NULL, finished.call}
    /\ finished.use.flushedOn \in {NULL, finished.call}
    /\ finished.use.snapshotOf \in {NULL, finished.call}
    /\ finished.released \in {NULL, finished.call}

FailureCause ==
  LET svg == isURLEndsWithSVG(finished.uri)
      resp == finished.response
  IN IF finished.made = NULL THEN <<"Failed to create offscreen surface">>
     ELSE IF resp.fetch = "rejected"
     THEN (IF resp.error.isError THEN resp.error.message ELSE <<"Unknown error">>)
     ELSE IF ~resp.decoded
     THEN (IF svg THEN <<"Failed to load SVG">> ELSE <<"Failed to load image">>)
     ELSE IF finished.use.flushedOn = NULL THEN <<NullDereference>>
     ELSE IF ~resp.hasPixels
     THEN (IF svg THEN <<"Failed to read pixels from SVG">>
           ELSE <<"Failed to read pixels from image">>)
     ELSE <<>>

\* C4: any failure inside getProminentColors is re-signalled as one rejection
\* whose message is "Failed to extract colors: " and the message of the cause
\* ("Unknown error" for a thrown value that is not an Error); nothing is
\* swallowed and no palette is returned.
C4_FailuresWrapped ==
  (Done /\ FailureCause # <<>>)
    => finished.result = Rejected(Error(<<"Failed to extract colors">> \o FailureCause))

\* C4 witness: readPixels returned nothing and the call rejected.
C4_Witness ==
  /\ Done /\ finished.made # NULL
  /\ finished.response.fetch = "ok" /\ finished.response.decoded
  /\ ~finished.response.hasPixels /\ finished.use.flushedOn # NULL
  /\ finished.result.st = "rejected"

\* acquisition, decode and pixel read of the finished call succeeded
PixelsRead ==
  /\ Done /\ finished.made # NULL /\ ResponseOk(finished.response)
  /\ finished.use.flushedOn # NULL

PaletteSettled(c) ==
  /\ calls[c].op \in {"getPalette", "getColorStatistics"}
  /\ calls[c].palette.st # "pending"

DominantSettled(c) == calls[c].op = "getDominantColor" /\ calls[c].pc = "settled"

PromiseOf(c) == IF DominantSettled(c) THEN calls[c].outcome ELSE calls[c].palette

\* C6: getPalette and getDominantColor reject with a message containing
\* "No colors found in image" exactly when the inner getProminentColors
\* resolved with an empty list; when the inner call rejected, the message
\* contains "Failed to extract colors" and not "No colors found in image".
\* (A message is the sequence of its parts joined by ": "; the causes are the
\* messages the code throws and the network error of the pixel source.)
C6_NoColorsIffEmpty ==
  \A c \in Calls :
    (PaletteSettled(c) \/ DominantSettled(c)) =>
      LET p == PromiseOf(c)
          inner == calls[c].inner
      IN /\ (p.st = "rejected" /\ Contains(p.error.message, NoColorsMessage))
              <=> (inner.st = "resolved" /\ inner.value.colors = <<>>)
         /\ inner.st = "rejected" =>
              /\ p.st = "rejected"
              /\ Contains(p.error.message, ExtractPrefix)
              /\ ~Contains(p.error.message, NoColorsMessage)

\* C6 witness: getDominantColor rejected with "No colors found in image"
\* after its inner call resolved with an empty list.
C6_Witness ==
  \E c \in Calls :
    /\ DominantSettled(c)
    /\ calls[c].inner = Resolved(NoValue)
    /\ calls[c].outcome.st = "rejected"
    /\ Contains(calls[c].outcome.error.message, NoColorsMessage)

\* C7: a result of getPalette has a non-empty colors list, dominant is
\* colors[0] and secondary is colors.slice(1).
C7_PaletteShape ==
  \A c \in Calls :
    (PaletteSettled(c) /\ calls[c].palette.st = "resolved") =>
      LET v == calls[c].palette.value
      IN /\ Len(v.colors) >= 1
         /\ v.colors = calls[c].inner.value.colors
         /\ v.dominant = <<v.colors[1]>>
         /\ Len(v.secondary) = Len(v.colors) - 1
         /\ \A k \in 1..Len(v.secondary) : v.secondary[k] = v.colors[k + 1]

\* C7 witness: getPalette resolved with two colours, one of them secondary.
C7_Witness ==
  \E c \in Calls :
    /\ calls[c].op = "getPalette" /\ calls[c].pc = "settled"
    /\ calls[c].outcome.st = "resolved"
    /\ Len(calls[c].outcome.value.colors) = 2
    /\ Len(calls[c].outcome.value.secondary) = 1

\* what getProminentColors yields for the one source under the configuration
ReferenceColors ==
  paletteResult(createPixelArray(SameResponse.pixels, SameResponse.pixelCount, config),
                config, SameResponse.q).value.colors

Agrees(call, colors) ==
  /\ call.outcome.st = "resolved"
  /\ CASE call.op = "getProminentColors" -> call.outcome.value.colors = colors
       [] call.op = "getPalette" -> call.outcome.value.colors = colors
       [] call.op = "getDominantColor" ->
            /\ Len(colors) >= 1
            /\ call.outcome.value.dominant = <<colors[1]>>
       [] call.op = "getColorsInFormat" ->
            call.outcome.value.strings =
              [k \in 1..Len(colors) |->
                 IF call.format = "hex" THEN colors[k].formats.hex
                 ELSE colors[k].formats.rgb]
       [] call.op = "getColorStatistics" ->
            call.outcome.value.totalColors = Len(colors)

\* C8: for one source, an unchanged configuration and a deterministic pixel
\* source and quantizer, the public operations agree with getProminentColors
\* whether they are invoked one after another or together.
C8_OperationsAgree ==
  \A c \in Calls : calls[c].pc = "settled" => Agrees(calls[c], ReferenceColors)

\* a step of an extraction operation: a getProminentColors invocation settled
\* or a call moved on to a position other than idle
ExtractionStep ==
  \/ finished' # NoFinished
  \/ \E c \in Calls : calls'[c].pc \notin {"idle", calls[c].pc}

\* C9: no step of an extraction operation changes the configuration, whether
\* the operation resolves or rejects.
C9_ExtractionKeepsConfig ==
  [][ExtractionStep => getConfig(config').value = getConfig(config).value]_vars

\* C9 witness: an extraction rejected on an instance whose configuration is
\* not the default one, and the configuration is still the constructor's or
\* the updated one.
C9_Witness ==
  /\ Done /\ finished.result.st = "rejected"
  /\ config # DefaultConfig
  /\ config \in {constructor(partial) : partial \in ConstructorArgs}
                  \cup {updateConfig(DefaultConfig, u) : u \in ConfigUpdates}

\* getProminentColors run from start to end on a fresh instance whose
\* configuration is sampling when createPixelArray runs and cfg otherwise
freshOutcome(sampling, cfg, uri, made, resp) ==
  LET ic == initializeCanvas(Instance(cfg, NULL, NULL), made)
      at == [ic.inst EXCEPT !.config = sampling]
      p == IF isURLEndsWithSVG(uri) THEN processSVG(at, resp)
           ELSE processImage(at, resp)
  IN IF ic.thrown # NotThrown
     THEN tryCatchFinally(ic.inst, ic.thrown, Pending).result
     ELSE tryCatchFinally(ic.inst, p.thrown,
                          paletteResult(p.pixelArray, cfg, resp.q)).result

\* C10: a call during which no other call is in flight starts with offScreen
\* and canvas null and settles as it would on a fresh instance with the same
\* configuration and the same answers of the pixel source and the quantizer,
\* whatever calls came before it.
C10_SequentialHistoryIndependent ==
  (Done /\ finished.alone) =>
    /\ finished.startedFresh
    /\ finished.result =
         freshOutcome(IF finished.sampledWith = <<>> THEN config
                      ELSE finished.sampledWith[1],
                      config, finished.uri, finished.made, finished.response)

\* C10 witness: a call that started right after another call was rejected ran
\* alone and resolved with colours.
C10_Witness ==
  /\ Done /\ finished.alone /\ finished.followsFailure
  /\ finished.result.st = "resolved"
  /\ Len(finished.result.value.colors) > 0

\* C11: after construction with any partial configuration and after any
\* sequence of updateConfig and resetConfig calls, each of the six
\* configuration fields holds a concrete value, never undefined or null.
C11_NoFieldUndefined ==
  \A f \in Fields : f \notin config.undefined /\ f \notin config.null

\* the fields a partial configuration object has as own properties
Own(partial) == DOMAIN partial.values \cup partial.undefined \cup partial.null

\* what the field f of the own property f of partial makes of cfg
Merged(cfg, partial, f) ==
  IF f \in DOMAIN partial.values
  THEN cfg'[f] = partial.values[f] /\ f \notin cfg'.undefined \cup cfg'.null
  ELSE /\ (f \in partial.undefined) <=> (f \in cfg'.undefined)
       /\ (f \in partial.null) <=> (f \in cfg'.null)

\* C12: updateConfig(partial) sets exactly the fields present in partial to
\* their new values, leaves every other configuration field as it was and
\* leaves offScreen and canvas untouched.
C12_UpdateConfigFrame ==
  [][\A partial \in ConfigPartials :
       UpdateConfig(partial) =>
         /\ \A f \in Own(partial) : Merged(config, partial, f)
         /\ \A f \in Fields \ Own(partial) :
              /\ config'[f] = config[f]
              /\ (f \in config'.undefined) <=> (f \in config.undefined)
              /\ (f \in config'.null) <=> (f \in config.null)
         /\ offScreen' = offScreen /\ canvas' = canvas]_vars

\* C12 witness: while a call holds a surface, the configuration is the
\* constructor's quality 1 with colorCount and excludeWhite updated and the
\* fields the update did not name still at their values.
C12_Witness ==
  /\ offScreen # NULL /\ canvas # NULL
  /\ config = updateConfig(constructor(Partial([quality |-> 1], {}, {})),
                           Partial([colorCount |-> 1, excludeWhite |-> FALSE,
                                    quality |-> 1], {}, {}))
  /\ config.minAlpha = 125 /\ config.colorCount = 1

\* the defaults as documented
DocumentedDefaults ==
  [quality |-> 10, colorCount |-> 5, minAlpha |-> 125, excludeWhite |-> TRUE,
   whiteThreshold |-> 250, canvasSize |-> 256, undefined |-> {}, null |-> {}]

\* C13: resetConfig restores the documented defaults after any sequence of
\* constructor arguments and updateConfig calls; the result equals the
\* configuration of an instance constructed with no arguments, and a second
\* resetConfig changes nothing.
C13_ResetRestoresDefaults ==
  [][ResetConfig =>
       /\ config' = DocumentedDefaults
       /\ config' = constructor(NoProperties)
       /\ config = DocumentedDefaults => config' = config]_vars

\* C13 witness: the configuration is the default one although an object
\* returned by getConfig earlier shows an updated colorCount and a quality
\* that held undefined.
C13_Witness ==
  /\ config = DocumentedDefaults
  /\ \E k \in 1..Len(copies) :
       /\ copies[k].value.colorCount = 1
       /\ "quality" \in copies[k].value.undefined

\* the objects returned by getConfig whose properties a step changed
Changed == {k \in 1..Len(copies) : copies'[k].value # copies[k].value}

\* C14: getConfig returns a defensive copy: a write to a returned object
\* changes neither this.config nor another returned object, and updateConfig
\* and resetConfig do not change an object returned earlier.
C14_GetConfigCopies ==
  [][/\ Len(copies') = Len(copies) =>
          /\ Cardinality(Changed) <= 1
          /\ Changed # {} => config' = config
          /\ config' # config => Changed = {}
     /\ Len(copies') > Len(copies) =>
          /\ copies'[Len(copies')].value = config
          /\ SubSeq(copies', 1, Len(copies)) = copies]_vars

\* C14 witness: of two returned objects one was written to; the other and
\* this.config still agree.
C14_Witness ==
  /\ Len(copies) = 2
  /\ copies[1].value.quality = 999
  /\ copies[2].value.quality # 999
  /\ copies[2].value = config

\* the byte of the buffer at 0-based position k, UNDEF when there is none
Byte(k) == IF k < Len(sampler.imgData) THEN sampler.imgData[k + 1] ELSE UNDEF

QualityAtLeastOne ==
  /\ sampler.pc # "none"
  /\ ~IsUndefined(sampler.cfg, "quality")
  /\ sampler.cfg.quality >= 1

RECURSIVE Pushed(_)
Pushed(visits) ==
  IF visits = <<>> THEN <<>>
  ELSE LET v == visits[Len(visits)]
           init == Pushed(SubSeq(visits, 1, Len(visits) - 1))
       IN IF v.push THEN Append(init, <<v.r, v.g, v.b>>) ELSE init

\* C16: a visited pixel with an alpha byte is discarded when its alpha is
\* below minAlpha and passes the alpha test when its alpha is minAlpha or
\* above, so no pixel with alpha < minAlpha is in the sample list; a visited
\* pixel without an alpha byte always passes the alpha test.
C16_AlphaThreshold ==
  (sampler.pc # "none" /\ ~IsUndefined(sampler.cfg, "minAlpha")) =>
    /\ \A k \in 1..Len(sampler.visits) :
         LET v == sampler.visits[k]
         IN /\ (v.a # UNDEF /\ v.a < sampler.cfg.minAlpha) => (~v.alpha /\ ~v.push)
            /\ (v.a # UNDEF /\ v.a >= sampler.cfg.minAlpha) => v.alpha
            /\ v.a = UNDEF => v.alpha
    /\ sampler.pixelArray = Pushed(sampler.visits)

\* C16 witness: with minAlpha 125 a pass kept a pixel of alpha 125 and
\* discarded a pixel of alpha 124.
C16_Witness ==
  /\ sampler.pc = "done" /\ sampler.cfg.minAlpha = 125
  /\ \E j, k \in 1..Len(sampler.visits) :
       /\ sampler.visits[j].a = 125 /\ sampler.visits[j].push
       /\ sampler.visits[k].a = 124 /\ ~sampler.visits[k].push

\* C17: a pixel that passed the alpha test is discarded exactly when
\* excludeWhite is true and r, g and b all exceed whiteThreshold; a pixel with
\* a channel at or below whiteThreshold is kept, and with excludeWhite false
\* no pixel is discarded by this rule.
C17_WhiteExclusion ==
  (sampler.pc # "none" /\ ~IsUndefined(sampler.cfg, "whiteThreshold")) =>
    \A k \in 1..Len(sampler.visits) :
      LET v == sampler.visits[k]
          t == sampler.cfg.whiteThreshold
      IN v.alpha =>
           (~v.push <=> (/\ sampler.cfg.excludeWhite
                         /\ v.r > t /\ v.g > t /\ v.b > t))

\* C17 witness: with excludeWhite and threshold 250 a pass discarded
\* (251, 251, 251) and kept (250, 250, 250).
C17_Witness ==
  /\ sampler.pc = "done" /\ sampler.cfg.excludeWhite
  /\ sampler.cfg.whiteThreshold = 250
  /\ \E j, k \in 1..Len(sampler.visits) :
       /\ sampler.visits[j].alpha /\ ~sampler.visits[j].push
       /\ sampler.visits[j].r = 251 /\ sampler.visits[j].b = 251
       /\ sampler.visits[k].push /\ sampler.visits[k].r = 250

\* C18: every sample is a 3-tuple of integers in 0..255 taken from bytes of
\* the buffer, for every buffer and every pixelCount, also a pixelCount
\* beyond the pixels the buffer holds; an empty buffer yields no sample.
C18_SamplesAreBytes ==
  sampler.pc # "none" =>
    /\ \A k \in 1..Len(sampler.pixelArray) :
         /\ Len(sampler.pixelArray[k]) = 3
         /\ \A ch \in 1..3 : sampler.pixelArray[k][ch] \in 0..255
    /\ sampler.imgData = <<>> => sampler.pixelArray = <<>>

\* a public getPalette call whose promise has just resolved
PaletteResolved(c) ==
  /\ calls[c].op = "getPalette" /\ calls[c].pc = "settled"
  /\ calls[c].outcome.st = "resolved"

C20_DistributionByRank ==
  \A c \in Calls :
    (/\ calls[c].op = "getColorStatistics" /\ calls[c].pc = "settled"
     /\ calls[c].outcome.st = "resolved") =>
      LET colors == calls[c].palette.value.colors
          N == Len(colors)
          stats == calls[c].outcome.value
      IN /\ stats.totalColors = N
         /\ \A k \in 1..N :
              /\ colors[k].formats.hex \in DOMAIN stats.distribution
              /\ LET w == stats.distribution[colors[k].formats.hex]
                 IN /\ w[1] * N = (N - (k - 1)) * w[2]
                    /\ 0 < w[1] /\ w[1] <= w[2]

\* the string is an optional "#" followed by exactly six hexadecimal digits
SixHexDigits(s) ==
  LET body == IF s # <<>> /\ Head(s) = "#" THEN Tail(s) ELSE s
  IN /\ Len(body) = 6
     /\ \A k \in 1..6 : \E d \in 1..16 :
          body[k] = HexDigitsLower[d] \/ body[k] = HexDigitsUpper[d]

\* the two lower-case digits of a channel value, zero-padded
TwoDigits(x) == <<HexDigitsLower[(x \div 16) + 1], HexDigitsLower[(x % 16) + 1]>>

\* C21: for all integers r, g, b in 0..255, rgbToHex(r, g, b) is "#" followed
\* by exactly six lower-case hexadecimal digits, two zero-padded digits per
\* channel, and hexToRgb of it is {r, g, b}; hexToRgb returns null for every
\* string that is not an optional "#" followed by exactly six hexadecimal
\* digits.
C21_HexRoundTrip ==
  /\ (evaluation.pc \in {"hexToRgb", "done"} /\ evaluation.args # <<>>) =>
       evaluation.hex = <<"#">> \o TwoDigits(evaluation.args[1])
                          \o TwoDigits(evaluation.args[2])
                          \o TwoDigits(evaluation.args[3])
  /\ (evaluation.pc = "done" /\ evaluation.args # <<>>) =>
       evaluation.rgb = [isNull |-> FALSE, r |-> evaluation.args[1],
                         g |-> evaluation.args[2], b |-> evaluation.args[3]]
  /\ (evaluation.pc = "done" /\ ~SixHexDigits(evaluation.hex)) =>
       evaluation.rgb.isNull

\* C21 witness: (15, 255, 0) went to "#0fff00" and back.
C21_Witness ==
  /\ evaluation.pc = "done" /\ evaluation.args = <<15, 255, 0>>
  /\ evaluation.hex = <<"#", "0", "f", "f", "f", "0", "0">>
  /\ evaluation.rgb = [isNull |-> FALSE, r |-> 15, g |-> 255, b |-> 0]

\* v1 precedes v2 in the lexicographic order of (major, minor, patch)
Precedes(v1, v2) ==
  \/ v1.major < v2.major
  \/ v1.major = v2.major /\ v1.minor < v2.minor
  \/ v1.major = v2.major /\ v1.minor = v2.minor /\ v1.patch < v2.patch

\* C22: compareVersions(v1, v2) returns exactly -1 when v1 precedes v2, 0 when
\* they are equal and 1 when v2 precedes v1, in the lexicographic order of
\* (major, minor, patch).
C22_CompareVersionsSign ==
  evaluation.pc = "done" =>
    evaluation.value =
      (IF Precedes(evaluation.v1, evaluation.v2) THEN -1
       ELSE IF evaluation.v1 = evaluation.v2 THEN 0 ELSE 1)

\* call c has sampled its pixel buffer and has not yet quantized or cleaned up
Sampled(c) == calls[c].pc = "awaitProcess" /\ calls[c].sampledWith # <<>>

\* C23: once the pixel buffer of a call is available, its sampling,
\* quantization, formatting and cleanup are one uninterrupted step: the step
\* that follows a call's sampling is that call's quantization and cleanup,
\* never a step of another call, an updateConfig or a resetConfig.
C23_SamplingToCleanupUninterrupted ==
  [][\A c \in Calls : Sampled(c) => calls'[c].pc # "awaitProcess"]_vars

\* the configuration is the one the sampling of the finished call read
SampledWithCurrent == Done /\ finished.sampledWith = <<config>>

\* what the finished call sampled and quantized with comes from config
SamplingAndQuantizingFrom(cfg) ==
  /\ finished.samples =
       createPixelArray(finished.response.pixels, finished.response.pixelCount, cfg)
  /\ finished.maxcolors \in { <<>>, <<cfg.colorCount>> }

\* C24: if no updateConfig or resetConfig executes from the start of a call's
\* sampling until the call settles, every configuration value the call uses
\* (canvasSize for the surface, quality, minAlpha, excludeWhite and
\* whiteThreshold for sampling, colorCount for quantization, quality for the
\* pixelCount of getPalette) comes from one configuration snapshot, also when
\* updateConfig ran while the call was suspended on the pixel source.
C24_OneSnapshot ==
  /\ SampledWithCurrent =>
       /\ SamplingAndQuantizingFrom(config)
       /\ finished.size = config.canvasSize
  /\ \A c \in Calls :
       (PaletteResolved(c) /\ calls[c].sampledWith = <<config>>) =>
         /\ calls[c].outcome.value.pixelCount =
              Len(calls[c].outcome.value.colors) * config.quality
         /\ calls[c].size = config.canvasSize

\* call c starts in this step and suspends on the pixel source
Suspends(c) == calls[c].pc # "awaitFetch" /\ calls'[c].pc = "awaitFetch"

\* C24 as amended: canvasSize is read when the call starts, before it suspends
\* on the pixel source; the values used for sampling, for quantization and
\* for the pixelCount of getPalette come from one configuration snapshot if no
\* updateConfig or resetConfig executes from the start of the call's sampling
\* until the call settles.
C24_SnapshotAfterSurface ==
  /\ [](/\ SampledWithCurrent => SamplingAndQuantizingFrom(config)
        /\ \A c \in Calls :
             (PaletteResolved(c) /\ calls[c].sampledWith = <<config>>) =>
               calls[c].outcome.value.pixelCount =
                 Len(calls[c].outcome.value.colors) * config.quality)
  /\ [][\A c \in Calls : Suspends(c) => calls'[c].size = config.canvasSize]_vars

\* C24 witness: updateConfig ran while the call was suspended on the pixel
\* source; the call sampled and quantized with the updated configuration on a
\* surface of the earlier canvasSize.
C24_Witness ==
  /\ SampledWithCurrent
  /\ finished.size = 256 /\ config.canvasSize = 64
  /\ finished.maxcolors = <<config.colorCount>>
  /\ finished.result.st = "resolved"

\* the positions of a call in the order the code passes through them
PhaseRank(pc) ==
  CASE pc \in {"idle", "settled"} -> 0
    [] pc = "awaitFetch" -> 1
    [] pc = "awaitProcess" -> 2
    [] pc \in {"awaitInner", "awaitPalette"} -> 3

\* a step moves call c one position on, leaves it where it is, or ends it
PhaseStep(c) ==
  \/ calls'[c].pc = calls[c].pc
  \/ PhaseRank(calls[c].pc) = 0 /\ calls'[c].pc \in {"idle", "awaitFetch", "settled", "awaitInner"}
  \/ calls[c].pc = "awaitFetch" /\ calls'[c].pc = "awaitProcess"
  \/ calls[c].pc = "awaitProcess" /\ calls'[c].pc \in {"settled", "awaitInner"}
  \/ calls[c].pc = "awaitInner" /\ calls'[c].pc \in {"settled", "awaitPalette"}
  \/ calls[c].pc = "awaitPalette" /\ calls'[c].pc = "settled"

\* the phases the finished extraction went through
FinishedSampled == finished.sampledWith # <<>>
FinishedQuantized == finished.quantized = 1
FinishedFormatted == Len(finished.result.value.colors) > 0

\* C25: within an extraction call the phases occur in the order
\* AcquiringSource, Sampling, Quantizing, Formatting. A call samples only
\* after its surface was created and the pixel source delivered pixels, it
\* quantizes only what sampling produced, it formats only a non-empty palette
\* the quantizer returned, and a call in which a phase threw runs no later
\* phase and is rejected.
C25_PhaseOrder ==
  /\ [](/\ \A c \in Calls :
             /\ calls[c].pc = "awaitFetch" => calls[c].made # NULL
             /\ Sampled(c) =>
                  /\ calls[c].made # NULL
                  /\ ResponseOk(calls[c].response)
                  /\ calls[c].processed.thrown = NotThrown
                  /\ calls[c].processed.use.drewOn # NULL
             /\ (calls[c].pc = "awaitProcess" /\ ~Sampled(c)) =>
                  /\ calls[c].processed.thrown # NotThrown
                  /\ calls[c].processed.pixelArray = <<>>
        /\ Done =>
             /\ FinishedSampled =>
                  finished.made # NULL /\ ResponseOk(finished.response)
             /\ FinishedQuantized =>
                  FinishedSampled /\ finished.samples # <<>>
                    /\ finished.maxcolors # <<>>
             /\ FinishedFormatted =>
                  /\ FinishedQuantized
                  /\ Len(quantize(finished.samples, finished.maxcolors[1],
                                  finished.response.q).palette) > 0
             /\ finished.made = NULL =>
                  finished.response = NoResponse /\ ~FinishedSampled
             /\ ~FinishedSampled =>
                  /\ ~FinishedQuantized /\ ~FinishedFormatted
                  /\ finished.result.st = "rejected")
  /\ [][\A c \in Calls : PhaseStep(c)]_vars

\* C25 witness: a call whose pixel read failed settled without sampling,
\* quantizing or formatting, on a surface that was created.
C25_Witness ==
  /\ Done /\ finished.made # NULL
  /\ finished.response.fetch = "ok" /\ finished.response.decoded
  /\ ~finished.response.hasPixels
  /\ ~FinishedSampled /\ ~FinishedQuantized
  /\ finished.result.st = "rejected"

\* an iteration of the sampling loop leaves i closer to pixelCount, or ends
\* the loop
LoopAdvances ==
  (sampler.pc = "loop" /\ loopContinues(sampler.i, sampler.pixelCount)) =>
    LET next == nextIndex(sampler.i, sampler.cfg)
    IN next = NaN \/ next > sampler.i

\* C26: every extraction call eventually settles, whatever configuration the
\* constructor, updateConfig and resetConfig left on the instance, provided
\* the pixel source answers; the sampling loop terminates, every iteration
\* advancing its index.
C26_EveryCallSettles ==
  /\ [](LoopAdvances)
  /\ \A c \in Calls : (calls[c].pc = "awaitFetch") ~> (calls[c].pc = "settled")

\* C27: the quantizer is never invoked with an empty sample list. When the
\* filtered sample list of a call is empty, quantizeColors returns null
\* without calling quantize and the call resolves with no colours; quantize
\* is called at most once per extraction call, and with the colorCount the
\* configuration holds at that moment.
C27_QuantizeNeverOnEmpty ==
  Done =>
    /\ finished.quantized \in {0, 1}
    /\ finished.quantized = 1 =>
         /\ finished.samples # <<>>
         /\ finished.maxcolors = <<config.colorCount>>
    /\ finished.samples = <<>> =>
         /\ finished.quantized = 0
         /\ finished.maxcolors = <<>>
         /\ quantizeColors(finished.samples, config, finished.response.q).isNull
         /\ FinishedSampled => finished.result = Resolved(NoValue)

\* C27 witness: the pixels were read and every sample was filtered out; the
\* call resolved without a call of quantize.
C27_Witness ==
  /\ Done /\ FinishedSampled
  /\ finished.response.pixelCount > 0
  /\ finished.samples = <<>>
  /\ finished.quantized = 0
  /\ finished.result.st = "resolved"

\* C28: getProminentColors returns the palette of the quantizer verbatim: as
\* many results as the palette has entries, result k holding palette entry k
\* as its rgb, duplicates kept and nothing re-ranked; the formats of a result
\* are formatRGB of its rgb in the formats hex, rgbString, hslString and
\* keyword.
C28_PaletteVerbatim ==
  (Done /\ FinishedQuantized) =>
    LET cmap == quantize(finished.samples, finished.maxcolors[1], finished.response.q)
        palette == IF cmap.isNull THEN <<>> ELSE cmap.palette
        colors == finished.result.value.colors
    IN /\ finished.result.st = "resolved"
       /\ Len(colors) = Len(palette)
       /\ \A k \in 1..Len(colors) :
            /\ colors[k].rgb = palette[k]
            /\ colors[k].formats.hex = formatRGB(palette[k], "hex")
            /\ colors[k].formats.rgb = formatRGB(palette[k], "rgbString")
            /\ colors[k].formats.hsl = formatRGB(palette[k], "hslString")
            /\ colors[k].formats.keyword = formatRGB(palette[k], "keyword")

\* C28 witness: the quantizer answered a palette that holds one colour twice,
\* and the call resolved with two results of that colour.
C28_Witness ==
  /\ Done /\ FinishedQuantized
  /\ finished.response.q = "duplicate"
  /\ Len(finished.result.value.colors) = 2
  /\ finished.result.value.colors[1] = finished.result.value.colors[2]
  /\ finished.result.value.colors[1].formats.hex = <<"#", "f", "f", "0", "0", "0", "0">>

\* the messages of the failures inside getProminentColors
ExtractionCauses ==
  { <<"Failed to create offscreen surface">>, <<"Canvas not initialized">>,
    <<"Network error">>, <<"Unknown error">>,
    <<"Failed to load SVG">>, <<"Failed to load image">>,
    <<"Failed to read pixels from SVG">>, <<"Failed to read pixels from image">>,
    <<NullDereference>> }

\* the prefixes of a public operation, outermost first, before the message
\* of what its inner getProminentColors call did
OwnPrefixes(op) ==
  CASE op = "getProminentColors" -> <<>>
    [] op = "getPalette" -> <<PalettePrefix>>
    [] op = "getDominantColor" -> <<DominantPrefix>>
    [] op = "getColorsInFormat" -> <<FormatPrefix>>
    [] op = "getColorStatistics" -> <<StatsPrefix, PalettePrefix>>

\* C29: a public async operation that fails rejects with one error whose
\* message is its fixed prefix followed by the message of the inner cause, so
\* the prefixes nest outermost first: getPalette, getDominantColor and
\* getColorsInFormat give "<own prefix>: Failed to extract colors: <cause>"
\* for a failed extraction, getColorStatistics gives "Failed to get color
\* statistics: Failed to get palette: " before "No colors found in image" or
\* "Failed to extract colors: <cause>", and the message of the original
\* cause ends the final message.
C29_PrefixesNest ==
  /\ (Done /\ finished.result.st = "rejected") =>
       /\ FailureCause \in ExtractionCauses
       /\ finished.result.error.message = <<ExtractPrefix>> \o FailureCause
  /\ \A c \in Calls :
       (calls[c].pc = "settled" /\ calls[c].outcome.st = "rejected") =>
         LET message == calls[c].outcome.error.message
             inner == calls[c].inner
             op == calls[c].op
         IN /\ calls[c].outcome.error.isError
            /\ inner.st = "rejected" =>
                 /\ Len(inner.error.message) > 1
                 /\ inner.error.message[1] = ExtractPrefix
                 /\ Tail(inner.error.message) \in ExtractionCauses
                 /\ message = OwnPrefixes(op) \o inner.error.message
            /\ inner.st = "resolved" =>
                 /\ op \in {"getPalette", "getDominantColor", "getColorStatistics"}
                 /\ inner.value.colors = <<>>
                 /\ message = OwnPrefixes(op) \o <<NoColorsMessage>>
            /\ inner.st # "pending"

\* C29 witness: getColorStatistics rejected after the pixel source rejected
\* with a network error: three prefixes, outermost first, then the cause.
C29_Witness ==
  \E c \in Calls :
    /\ calls[c].pc = "settled" /\ calls[c].op = "getColorStatistics"
    /\ calls[c].outcome.st = "rejected"
    /\ calls[c].outcome.error.message =
         <<StatsPrefix, PalettePrefix, ExtractPrefix, "Network error">>

\* the rasterization path the finished call went through, from what only that
\* path does: the failure it throws, the snapshot it takes of the surface
RasterizedBy ==
  LET cause == IF finished.result.st = "rejected"
               THEN Tail(finished.result.error.message) ELSE <<>>
  IN IF cause \in { <<"Failed to load SVG">>, <<"Failed to read pixels from SVG">> }
     THEN {"svg"}
     ELSE IF cause \in { <<"Failed to load image">>, <<"Failed to read pixels from image">> }
     THEN {"raster"}
     ELSE IF finished.use.flushedOn = NULL THEN {}
     ELSE IF finished.use.snapshotOf # NULL THEN {"svg"} ELSE {"raster"}

\* the pixel source delivered the bytes of the finished call's source
Fetched == Done /\ finished.made # NULL /\ finished.response.fetch = "ok"

\* C30: an extraction call goes through exactly one rasterization path: the
\* SVG path if and only if its URI, lowercased, ends with ".svg", the raster
\* path otherwise. isSupportedFormat is not consulted: a URI it rejects (an
\* unknown suffix, a suffix followed by a query string or a fragment) is
\* processed by the raster path, and every URI that takes the SVG path is one
\* isSupportedFormat accepts.
C30_OnePathBySuffix ==
  Fetched =>
    /\ Cardinality(RasterizedBy) = 1
    /\ RasterizedBy = {"svg"} <=>
         endsWith(toLowerCase(finished.uri), <<".", "s", "v", "g">>)
    /\ ~isSupportedFormat(finished.uri) => RasterizedBy = {"raster"}
    /\ RasterizedBy = {"svg"} => isSupportedFormat(finished.uri)
    /\ (~isSupportedFormat(finished.uri) /\ ResponseOk(finished.response)) =>
         finished.result.st = "resolved"

\* C30 witness: a URI with a fragment after its .svg suffix, which
\* isSupportedFormat rejects, was decoded as a raster image and the call
\* resolved with colours.
C30_Witness ==
  /\ Fetched
  /\ finished.uri = <<"a", ".", "s", "v", "g", "#", "s">>
  /\ ~isSupportedFormat(finished.uri)
  /\ RasterizedBy = {"raster"}
  /\ Len(finished.result.value.colors) > 0

====
